---- MODULE Spec2Model ----
(***************************************************************************)
(* A model of the cubic Bezier part of package stroke: Point arithmetic,   *)
(* the Segment algebra (tangents, extrema, Split, Split2, splitAtExtrema,  *)
(* reverse), the arc helpers (AppendArc, arcTransform) and Stroke's        *)
(* degenerate filter.                                                      *)
(*                                                                         *)
(* The package computes in float32.  A float32 is modelled as the pair     *)
(* <<m, e>> standing for m * 2^e, with m odd and |m| < 2^MantBits (zero is *)
(* <<0, 0>>), so that equality of finite values is equality of pairs.      *)
(* Every operation rounds to nearest, ties to even, as IEEE 754 does.  The *)
(* exponent range is not bounded (no overflow or underflow: the inputs of  *)
(* the model stay far from both) and the sign of zero is not kept (the     *)
(* code never divides by a zero and == does not see it).  NaN and the      *)
(* infinities are the pairs <<0, 1>>, <<0, 2>> and <<0, 3>>.               *)
(***************************************************************************)
EXTENDS Integers, Sequences, FiniteSets

\* float32 has 24 significant bits.
MantBits == 24

----------------------------------------------------------------------------
(* Integer helpers (all values stay below 2^31). *)

Pow2(k) == 2^k

Abs(n) == IF n < 0 THEN -n ELSE n

Min(a, b) == IF a < b THEN a ELSE b

Max(a, b) == IF a < b THEN b ELSE a

RECURSIVE BitLenW(_, _)
\* The number of bits of n, which has fewer than w bits to go (w a power of 2).
BitLenW(n, w) ==
    IF w = 1 THEN n
    ELSE LET h == w \div 2
         IN  IF n >= Pow2(h) THEN h + BitLenW(n \div Pow2(h), h)
             ELSE BitLenW(n, h)

\* The number of bits of n >= 0 (0 for 0).
BitLen(n) == BitLenW(n, 32)

RECURSIVE Ctz(_, _)
\* The number of trailing zero bits of n > 0 (h starts at 16).
Ctz(n, h) ==
    IF h = 0 THEN 0
    ELSE IF n % Pow2(h) = 0 THEN h + Ctz(n \div Pow2(h), h \div 2)
         ELSE Ctz(n, h \div 2)

\* r + 1 if its square is at most n, else r.
RootStep(r, n) == IF (r + 1) * (r + 1) <= n THEN r + 1 ELSE r

RECURSIVE ISqrt(_)
\* The integer square root of n >= 0.
ISqrt(n) == IF n < 2 THEN n ELSE RootStep(2 * ISqrt(n \div 4), n)

----------------------------------------------------------------------------
(* float32 values. *)

Zero == <<0, 0>>
NaN == <<0, 1>>
PosInf == <<0, 2>>
NegInf == <<0, 3>>

IsNaN(x) == x = NaN
IsInf(x) == x = PosInf \/ x = NegInf
IsFinite(x) == x[1] # 0 \/ x[2] = 0

\* -1, 0 or 1 (0 for NaN too).
Sign(x) ==
    IF x = PosInf THEN 1
    ELSE IF x = NegInf THEN -1
    ELSE IF x[1] > 0 THEN 1
    ELSE IF x[1] < 0 THEN -1
    ELSE 0

InfOf(s) == IF s < 0 THEN NegInf ELSE PosInf

\* The pair of m * 2^e with m made odd.
Canon(m, e) ==
    IF m = 0 THEN Zero
    ELSE LET z == Ctz(Abs(m), 16)
         IN  <<m \div Pow2(z), e + z>>

\* s * (n + f) * 2^e rounded to MantBits bits, nearest and ties to even, where
\* 0 <= n < 2^31, and f = 0 unless sticky, when 0 < f < 1 and n has at least
\* MantBits + 2 bits.
Round(s, n, e, sticky) ==
    LET bl == BitLen(n)
    IN  IF bl <= MantBits THEN Canon(s * n, e)
        ELSE LET sh == bl - MantBits
                 q == n \div Pow2(sh)
                 r == n % Pow2(sh)
                 half == Pow2(sh - 1)
                 up == r > half \/ (r = half /\ (sticky \/ q % 2 = 1))
             IN  Canon(s * (IF up THEN q + 1 ELSE q), e + sh)

\* An integer (given by its shortest pair, or any m * 2^e) as a float32.
F(m, e) == Round(IF m < 0 THEN -1 ELSE 1, Abs(m), e, FALSE)

FNeg(x) == IF IsFinite(x) THEN <<-x[1], x[2]>>
           ELSE IF x = PosInf THEN NegInf
           ELSE IF x = NegInf THEN PosInf
           ELSE NaN

FAbs(x) == IF Sign(x) < 0 THEN FNeg(x) ELSE x

\* x + y for finite nonzero x and y, the exponent of x not below that of y.
AddOrdered(x, y) ==
    LET n1 == Abs(x[1])
        n2 == Abs(y[1])
        s1 == Sign(x)
        s2 == Sign(y)
        gap == x[2] - y[2]
        bl1 == BitLen(n1)
    IN  IF bl1 + gap <= 30
        THEN LET v == x[1] * Pow2(gap) + y[1]
             IN  Round(IF v < 0 THEN -1 ELSE 1, Abs(v), y[2], FALSE)
        ELSE \* y lies below the 30 bits kept of x: it is shifted right and what
             \* falls off is the sticky fraction.
             LET up == 30 - bl1
                 a == n1 * Pow2(up)
                 sh == gap - up
                 b == IF sh >= 25 THEN 0 ELSE n2 \div Pow2(sh)
             IN  IF s1 = s2 THEN Round(s1, a + b, x[2] - up, TRUE)
                 ELSE Round(s1, a - b - 1, x[2] - up, TRUE)

FAdd(x, y) ==
    IF IsNaN(x) \/ IsNaN(y) THEN NaN
    ELSE IF IsInf(x) THEN (IF IsInf(y) /\ x # y THEN NaN ELSE x)
    ELSE IF IsInf(y) THEN y
    ELSE IF x = Zero THEN y
    ELSE IF y = Zero THEN x
    ELSE IF x[2] >= y[2] THEN AddOrdered(x, y)
    ELSE AddOrdered(y, x)

FSub(x, y) == FAdd(x, FNeg(y))

\* The 48-bit product of two mantissas as <<H, L>>, standing for H * 2^24 + L,
\* formed from 12-bit halves.
WideMul(n1, n2) ==
    LET a1 == n1 \div 4096
        a0 == n1 % 4096
        b1 == n2 \div 4096
        b0 == n2 % 4096
        mid == a1 * b0 + a0 * b1
        low == (mid % 4096) * 4096 + a0 * b0
    IN  <<a1 * b1 + mid \div 4096 + low \div 16777216, low % 16777216>>

\* x * y: the top 30 bits of the product of the mantissas are rounded.
FMul(x, y) ==
    IF IsNaN(x) \/ IsNaN(y) THEN NaN
    ELSE IF IsInf(x) \/ IsInf(y)
         THEN (IF Sign(x) = 0 \/ Sign(y) = 0 THEN NaN ELSE InfOf(Sign(x) * Sign(y)))
    ELSE IF x = Zero \/ y = Zero THEN Zero
    ELSE LET w == WideMul(Abs(x[1]), Abs(y[1]))
             k == Min(24, 30 - BitLen(w[1]))
         IN  Round(Sign(x) * Sign(y), w[1] * Pow2(k) + w[2] \div Pow2(24 - k),
                   x[2] + y[2] + 24 - k, w[2] % Pow2(24 - k) # 0)

RECURSIVE LongDiv(_, _, _, _)
\* <<quotient, remainder>> after k more steps of 7 bits each (rem < b < 2^24).
LongDiv(q, rem, b, k) ==
    IF k = 0 THEN <<q, rem>>
    ELSE LongDiv(q * 128 + (rem * 128) \div b, (rem * 128) % b, b, k - 1)

\* x / y: both mantissas are brought to 24 bits and 28 bits of quotient taken.
FDiv(x, y) ==
    IF IsNaN(x) \/ IsNaN(y) THEN NaN
    ELSE IF IsInf(x) THEN (IF IsInf(y) THEN NaN
                           ELSE InfOf(Sign(x) * (IF Sign(y) < 0 THEN -1 ELSE 1)))
    ELSE IF IsInf(y) THEN Zero
    ELSE IF y = Zero THEN (IF x = Zero THEN NaN ELSE InfOf(Sign(x)))
    ELSE IF x = Zero THEN Zero
    ELSE LET u1 == 24 - BitLen(Abs(x[1]))
             u2 == 24 - BitLen(Abs(y[1]))
             a == Abs(x[1]) * Pow2(u1)
             b == Abs(y[1]) * Pow2(u2)
             d == LongDiv(a \div b, a % b, b, 4)
         IN  Round(Sign(x) * Sign(y), d[1], (x[2] - u1) - (y[2] - u2) - 28,
                   d[2] # 0)

RECURSIVE SqrtMore(_, _, _)
\* <<root, remainder>> once the root has 26 bits, each step taking one more
\* pair of (zero) bits of the radicand.
SqrtMore(r, rem, k) ==
    IF BitLen(r) >= 26 THEN <<r, rem, k>>
    ELSE LET t == 4 * r + 1
         IN  IF 4 * rem >= t THEN SqrtMore(2 * r + 1, 4 * rem - t, k + 1)
             ELSE SqrtMore(2 * r, 4 * rem, k + 1)

SqrtDone(e, d) == Round(1, d[1], e \div 2 - d[3], d[2] # 0)

SqrtFrom(m, e, r0) == SqrtDone(e, SqrtMore(r0, m - r0 * r0, 0))

\* The rounded square root of m * 2^e, e even.
SqrtEven(m, e) == SqrtFrom(m, e, ISqrt(m))

\* float32(math.Sqrt(float64(x))): the correctly rounded square root (rounding
\* first to float64 and then to float32 gives the same value).
FSqrt(x) ==
    IF IsNaN(x) \/ Sign(x) < 0 THEN NaN
    ELSE IF x = PosInf THEN PosInf
    ELSE IF x = Zero THEN Zero
    ELSE IF x[2] % 2 = 1 THEN SqrtEven(2 * x[1], x[2] - 1)
    ELSE SqrtEven(x[1], x[2])

\* The four 12-bit limbs of H * 2^24 + L, the least significant first.
Limbs(w) == <<w[2] % 4096, w[2] \div 4096, w[1] % 4096, w[1] \div 4096>>

RECURSIVE Carry(_, _, _, _)
\* The 12-bit limbs of the number whose limbs before carrying are raw, from
\* limb i on, with the carry c and the limbs acc found so far.
Carry(raw, i, c, acc) ==
    IF i > Len(raw) THEN (IF c = 0 THEN acc ELSE Append(acc, c))
    ELSE Carry(raw, i + 1, (raw[i] + c) \div 4096, Append(acc, (raw[i] + c) % 4096))

RECURSIVE SqrtDigits(_, _, _, _, _)
\* <<root, inexact, digits taken>> once the root has 26 bits: digit j is the
\* next base-4 digit of the radicand to take, of the n that the limbs ls below
\* the ones already used hold (zeros follow them).
SqrtDigits(r, rem, j, n, ls) ==
    IF BitLen(r) >= 26
    THEN <<r,
           rem # 0 \/ (j <= n /\ (\/ ls[(n - j) \div 6 + 1] % Pow2(2 * (((n - j) % 6) + 1)) # 0
                                  \/ \E k \in 1..((n - j) \div 6) : ls[k] # 0)),
           j - 1>>
    ELSE LET d == IF j <= n
                  THEN (ls[(n - j) \div 6 + 1] \div Pow2(2 * ((n - j) % 6))) % 4
                  ELSE 0
             v == 4 * rem + d
             t == 4 * r + 1
         IN  IF v >= t THEN SqrtDigits(2 * r + 1, v - t, j + 1, n, ls)
             ELSE SqrtDigits(2 * r, v, j + 1, n, ls)

\* The index of the most significant nonzero limb of ls.
TopLimb(ls) == CHOOSE i \in 1..Len(ls) : ls[i] # 0 /\ \A k \in (i + 1)..Len(ls) : ls[k] = 0

\* The square root of the number with limbs ls, times 2^e: the integer square
\* root r0 of its leading limbs pre is extended digit by digit and rounded.
SqrtShift(e, d) == Round(1, d[1], e - d[3], d[2])

SqrtRound(e, ls, n, pre, r0) == SqrtShift(e + n, SqrtDigits(r0, pre - r0 * r0, 1, n, ls))

SqrtLead(e, ls, n, pre) == SqrtRound(e, ls, n, pre, ISqrt(pre))

SqrtLimbs(e, ls, t) ==
    IF t >= 2 THEN SqrtLead(e, ls, 6 * (t - 2), ls[t] * 4096 + ls[t - 1])
    ELSE SqrtLead(e, ls, 0, ls[t])

\* The limbs of X^2 * 2^(12 * q) * sh + Y^2, from the limbs of the two squares.
SumLimbs(xl, yl, q, sh) ==
    Carry([i \in 1..(q + 4) |->
              (IF i > q THEN xl[i - q] * sh ELSE 0) + (IF i <= 4 THEN yl[i] ELSE 0)],
          1, 0, <<>>)

SqrtSum(e, ls) == SqrtLimbs(e, ls, TopLimb(ls))

\* sqrt(x^2 + y^2) for finite nonzero x and y of magnitudes less than 2^13
\* apart, the exponent of x not below that of y: the square root of
\* X^2 * 4^gap + Y^2, times 2^(exponent of y).
HypotOrdered(x, y) ==
    SqrtSum(y[2],
            SumLimbs(Limbs(WideMul(Abs(x[1]), Abs(x[1]))),
                     Limbs(WideMul(Abs(y[1]), Abs(y[1]))),
                     (2 * (x[2] - y[2])) \div 12, Pow2((2 * (x[2] - y[2])) % 12)))

\* The bit position above the leading bit of a finite nonzero x.
Top(x) == x[2] + BitLen(Abs(x[1]))

\* float32(math.Hypot(float64(x), float64(y))): the square root of the exact sum
\* of the squares, rounded once.
Hypot(x, y) ==
    IF IsInf(x) \/ IsInf(y) THEN PosInf
    ELSE IF IsNaN(x) \/ IsNaN(y) THEN NaN
    ELSE IF x = Zero THEN FAbs(y)
    ELSE IF y = Zero THEN FAbs(x)
    \* A term 2^13 times smaller changes the root by less than half a unit in
    \* the last place of the other.
    ELSE IF Top(x) - Top(y) >= 13 THEN FAbs(x)
    ELSE IF Top(y) - Top(x) >= 13 THEN FAbs(y)
    ELSE IF x[2] >= y[2] THEN HypotOrdered(x, y)
    ELSE HypotOrdered(y, x)

\* Go's comparisons: every comparison with NaN is false, except !=.
FEq(x, y) == ~IsNaN(x) /\ ~IsNaN(y) /\ x = y
FNe(x, y) == ~FEq(x, y)
FLt(x, y) == ~IsNaN(x) /\ ~IsNaN(y) /\ x # y /\
             (IF IsInf(x) \/ IsInf(y)
              THEN (x = NegInf \/ y = PosInf)
              ELSE Sign(FSub(x, y)) < 0)
FGt(x, y) == FLt(y, x)
FLe(x, y) == FLt(x, y) \/ FEq(x, y)

----------------------------------------------------------------------------
(* Point. *)

Pt(x, y) == [X |-> x, Y |-> y]

\* p == p2 in Go: both coordinates compare equal.
PtEq(p, p2) == FEq(p.X, p2.X) /\ FEq(p.Y, p2.Y)

PtAdd(p, p2) == [X |-> FAdd(p.X, p2.X), Y |-> FAdd(p.Y, p2.Y)]

PtSub(p, p2) == [X |-> FSub(p.X, p2.X), Y |-> FSub(p.Y, p2.Y)]

PtMul(p, s) == [X |-> FMul(p.X, s), Y |-> FMul(p.Y, s)]

PtDiv(p, s) == [X |-> FDiv(p.X, s), Y |-> FDiv(p.Y, s)]

----------------------------------------------------------------------------
(* Segment. *)

One == <<1, 0>>

Segment(start, cp1, cp2, end) == [Start |-> start, CP1 |-> cp1, CP2 |-> cp2, End |-> end]

\* s == s2 in Go: the four points compare equal.
SegEq(s, s2) ==
    /\ PtEq(s.Start, s2.Start)
    /\ PtEq(s.CP1, s2.CP1)
    /\ PtEq(s.CP2, s2.CP2)
    /\ PtEq(s.End, s2.End)

\* The control points lie a third of the way in from either end.
LinearSegment(a, b) ==
    Segment(a, PtAdd(a, PtDiv(PtSub(b, a), <<3, 0>>)),
            PtSub(b, PtDiv(PtSub(b, a), <<3, 0>>)), b)

\* interpolate with the ratio applied to the wrong end.
interpolateSwapped(t, a, b) == PtAdd(PtMul(a, t), PtMul(b, FSub(One, t)))

interpolate(t, a, b) == PtAdd(PtMul(a, FSub(One, t)), PtMul(b, t))

unitVector(p) ==
    IF PtEq(p, Pt(Zero, Zero)) THEN p
    ELSE PtDiv(p, Hypot(p.X, p.Y))

\* t0 taken from CP1 even where CP1 is Start.
T0Unskipped(s) == unitVector(PtSub(s.CP1, s.Start))

\* t0 of tangents.
T0(s) ==
    IF ~PtEq(s.CP1, s.Start) THEN unitVector(PtSub(s.CP1, s.Start))
    ELSE IF ~PtEq(s.CP2, s.Start) THEN unitVector(PtSub(s.CP2, s.Start))
    ELSE unitVector(PtSub(s.End, s.Start))

\* t1 of tangents.
T1(s) ==
    IF ~PtEq(s.CP2, s.End) THEN unitVector(PtSub(s.End, s.CP2))
    ELSE IF ~PtEq(s.CP1, s.End) THEN unitVector(PtSub(s.End, s.CP1))
    ELSE unitVector(PtSub(s.End, s.Start))

\* <<t0, t1>>.
tangents(s) == <<T0(s), T1(s)>>

Two == <<1, 1>>

\* case d != 0: append(dst, v1, v2).
quadraticPair(dst, m1, m2, d) ==
    dst \o <<FDiv(FNeg(FAdd(m1, m2)), d), FDiv(FNeg(FAdd(FNeg(m1), m2)), d)>>

\* The switch of quadraticRoots on d.
quadraticSwitch(dst, a, b, c, d) ==
    IF FNe(d, Zero)
    THEN quadraticPair(dst, FNeg(FSqrt(FSub(FMul(b, b), FMul(a, c)))), FAdd(FNeg(a), b), d)
    ELSE IF FNe(b, c) /\ FEq(d, Zero)
    THEN Append(dst, FDiv(FSub(FMul(Two, b), c), FMul(Two, FSub(b, c))))
    ELSE dst

quadraticRoots(dst, a, b, c) ==
    quadraticSwitch(dst, a, b, c, FAdd(FSub(a, FMul(Two, b)), c))

\* [root, ok].
linearRoot(a, b) ==
    IF FNe(a, b) THEN [root |-> FDiv(a, FSub(a, b)), ok |-> TRUE]
    ELSE [root |-> Zero, ok |-> FALSE]

RECURSIVE InsertSorted(_, _)
\* v put into the ascending sequence f, before the first element it is less than.
InsertSorted(f, v) ==
    IF f = <<>> THEN <<v>>
    ELSE IF FLt(v, Head(f)) THEN <<v>> \o f
    ELSE <<Head(f)>> \o InsertSorted(Tail(f), v)

RECURSIVE float32Slice(_)
\* sort.Sort(float32Slice(f)): f in ascending order by Less.
float32Slice(f) ==
    IF f = <<>> THEN <<>>
    ELSE InsertSorted(float32Slice(Tail(f)), Head(f))

RECURSIVE compactFrom(_, _, _)
\* The loop of compact: the elements of rest that differ from the one kept last.
compactFrom(rest, last, acc) ==
    IF rest = <<>> THEN acc
    ELSE IF FNe(Head(rest), last)
         THEN compactFrom(Tail(rest), Head(rest), Append(acc, Head(rest)))
         ELSE compactFrom(Tail(rest), last, acc)

\* compact that keeps every element.
compactKeepAll(s) == s

compact(s) ==
    IF Len(s) = 0 THEN s
    ELSE compactFrom(Tail(s), s[1], <<s[1]>>)

\* extrema without the root of linearRoot.
appendRootDropped(result, l) == result

\* if r, ok := linearRoot(...); ok { result = append(result, r) }.
appendRoot(result, l) == IF l.ok THEN Append(result, l.root) ELSE result

\* The roots extrema collects for one axis with derivative coefficients a, b, c.
axisRoots(dst, a, b, c) ==
    appendRoot(quadraticRoots(dst, a, b, c), linearRoot(FSub(b, a), FSub(c, b)))

\* The filter without its test v > 1.
filterRangeBelow(result) ==
    [k \in 1..Len(result) |->
        IF FLt(result[k], Zero) \/ FNe(result[k], result[k])
        THEN Zero ELSE result[k]]

\* Results outside the range 0 to 1, or NaN, become 0.
filterRange(result) ==
    [k \in 1..Len(result) |->
        IF FLt(result[k], Zero) \/ FGt(result[k], One) \/ FNe(result[k], result[k])
        THEN Zero ELSE result[k]]

\* The roots of both axes, before the endpoints are added.
roots(s) ==
    axisRoots(axisRoots(<<>>, FSub(s.CP1.X, s.Start.X), FSub(s.CP2.X, s.CP1.X),
                        FSub(s.End.X, s.CP2.X)),
              FSub(s.CP1.Y, s.Start.Y), FSub(s.CP2.Y, s.CP1.Y), FSub(s.End.Y, s.CP2.Y))

extrema(s) == compact(float32Slice(filterRange(roots(s) \o <<Zero, One>>)))

SplitC(s, a1, a3, b1, b2, c) == <<Segment(s.Start, a1, b1, c), Segment(c, b2, a3, s.End)>>

SplitB(s, t, a1, a3, b1, b2) == SplitC(s, a1, a3, b1, b2, interpolate(t, b1, b2))

SplitA(s, t, a1, a2, a3) ==
    SplitB(s, t, a1, a3, interpolate(t, a1, a2), interpolate(t, a2, a3))

\* <<first half, second half>>.
Split(s, t) ==
    SplitA(s, t, interpolate(t, s.Start, s.CP1), interpolate(t, s.CP1, s.CP2),
           interpolate(t, s.CP2, s.End))

\* a, _ := s.Split(t2); _, b := a.Split(t1 / t2), with q the quotient t1 / t2.
Split2Inner(a, t2, q) == [r |-> Split(a, q)[2], calls |-> <<t2, q>>]

\* Split2 without its case t1 == 0.
Split2CallsNoZero(s, t1, t2) ==
    IF FEq(t2, One) THEN [r |-> Split(s, t1)[2], calls |-> <<t1>>]
    ELSE Split2Inner(Split(s, t2)[1], t2, FDiv(t1, t2))

\* The section of s between t1 and t2, with the arguments of the calls of Split
\* it took.
Split2Calls(s, t1, t2) ==
    IF FEq(t1, Zero) THEN [r |-> Split(s, t2)[1], calls |-> <<t2>>]
    ELSE IF FEq(t2, One) THEN [r |-> Split(s, t1)[2], calls |-> <<t1>>]
    ELSE Split2Inner(Split(s, t2)[1], t2, FDiv(t1, t2))

Split2(s, t1, t2) == Split2Calls(s, t1, t2).r

\* The loop of splitAtExtrema over the extrema ex.
splitAt(s, ex) == [k \in 1..(Len(ex) - 1) |-> Split2(s, ex[k], ex[k + 1])]

splitAtExtrema(s) == splitAt(s, extrema(s))

\* reverse that leaves the control points where they are.
reverseEnds(s) == Segment(s.End, s.CP1, s.CP2, s.Start)

reverse(s) == Segment(s.End, s.CP2, s.CP1, s.Start)

reversePath(path) ==
    [k \in 1..Len(path) |-> reverse(path[Len(path) - k + 1])]

----------------------------------------------------------------------------
(* Arcs.  math.Atan2, math.Sincos and math.Tan are not computed: the points  *)
(* ArcSegment derives with them are kept as terms over its arguments.        *)

\* The end point, and the two control points, of the arc from start around
\* center through angle.
ArcPoint(which, start, center, angle) ==
    [arc |-> which, start |-> start, center |-> center, angle |-> angle]

ArcSegment(start, center, angle) ==
    Segment(start, ArcPoint("cp1", start, center, angle),
            ArcPoint("cp2", start, center, angle),
            ArcPoint("end", start, center, angle))

\* int(f) for a finite f >= 0 below 2^30: f truncated.
TruncInt(f) == IF f[2] >= 0 THEN f[1] * Pow2(f[2])
               ELSE IF -f[2] > 30 THEN 0
               ELSE f[1] \div Pow2(-f[2])

\* int(math.Ceil(float64(f))) for a finite f >= 0 below 2^30.
CeilInt(f) == IF f[2] >= 0 THEN f[1] * Pow2(f[2])
              ELSE IF -f[2] > 30 THEN 1
              ELSE (f[1] + Pow2(-f[2]) - 1) \div Pow2(-f[2])

\* float32(n) for an int n.
Float32(n) == F(n, 0)

\* n and segmentAngle of AppendArc: math.Abs(float64(angle)) + 1 is exact in
\* float64 (or rounds to 1 for a tiny angle), so int() of it is the truncation
\* of |angle|, plus 1.
arcCount(angle) == TruncInt(FAbs(angle)) + 1

arcSegmentAngle(angle) == FDiv(angle, Float32(arcCount(angle)))

\* float32(2 * math.Pi / 16) = 0.39269909262657166.
anglePerSegment == <<13176795, -25>>

\* segments without the clamp to 1.
arcSegmentsUnclamped(s0) == CeilInt(IF FLt(s0, Zero) THEN FNeg(s0) ELSE s0)

\* segments of arcTransform from s = angle / anglePerSegment.
arcSegments(s0) ==
    IF CeilInt(IF FLt(s0, Zero) THEN FNeg(s0) ELSE s0) <= 0 THEN 1
    ELSE CeilInt(IF FLt(s0, Zero) THEN FNeg(s0) ELSE s0)

arcTheta(angle, segments) ==
    [segments |-> segments, theta |-> FDiv(angle, Float32(segments))]

\* segments and the per-segment angle of arcTransform (its transform is not
\* modelled).
arcTransform(p, f1, f2, angle) ==
    arcTheta(angle, arcSegments(FDiv(angle, anglePerSegment)))

----------------------------------------------------------------------------
(* Stroke.  Its code is not among the sources: only the degenerate filter    *)
(* the specification gives it is modelled, and an outline is kept as a term. *)

\* The filter asking that the four points of every segment coincide.
degeneratePoints(contour) ==
    \A k \in 1..Len(contour) :
        /\ PtEq(contour[k].CP1, contour[k].Start)
        /\ PtEq(contour[k].CP2, contour[k].Start)
        /\ PtEq(contour[k].End, contour[k].Start)

\* A contour that reduces to a single point: every segment has Start == End.
degenerate(contour) == \A k \in 1..Len(contour) : PtEq(contour[k].Start, contour[k].End)

strokeContour(contour, opt) ==
    IF degenerate(contour) THEN <<>>
    ELSE <<[outline |-> contour, opt |-> opt]>>

RECURSIVE Stroke(_, _)
Stroke(path, opt) ==
    IF path = <<>> THEN <<>>
    ELSE strokeContour(Head(path), opt) \o Stroke(Tail(path), opt)

----------------------------------------------------------------------------
(* The inputs of the model. *)

\* How many of the points of PointList the segments are built from.
NumPts == 4

\* The longest contour given to reversePath and Stroke.
MaxContour == 2

\* AppendArc's loop is followed for at most this many segments.
MaxAppend == 8

PtI(x, y) == Pt(F(x, 0), F(y, 0))

PointList == <<PtI(0, 0), PtI(3, 0), PtI(1, 2), PtI(3, 3), PtI(0, 1), PtI(2, 5)>>

Pts == {PointList[k] : k \in 1..Min(NumPts, Len(PointList))}

\* The segments of tangentTests, extremaTests and lengthTests.
TestSegments ==
    { Segment(PtI(119, 100), PtI(25, 190), PtI(210, 250), PtI(210, 30)),
      Segment(PtI(25, 190), PtI(25, 190), PtI(210, 250), PtI(210, 30)),
      Segment(PtI(110, 150), PtI(25, 190), PtI(210, 250), PtI(210, 30)),
      Segment(PtI(0, 0), PtI(50, 0), PtI(100, 0), PtI(-50, 0)) }

Segments ==
    {Segment(p0, p1, p2, p3) : p0 \in Pts, p1 \in Pts, p2 \in Pts, p3 \in Pts}
        \cup TestSegments

\* 0, 1/4, 0.3, 1/2 and 1.
Params == {Zero, <<1, -2>>, <<5033165, -24>>, <<1, -1>>, One}

\* The segments contours are made of: a point, a closed loop and two lines.
ContourSegments ==
    { LinearSegment(PtI(0, 0), PtI(0, 0)),
      Segment(PtI(0, 0), PtI(3, 0), PtI(1, 2), PtI(0, 0)),
      LinearSegment(PtI(0, 0), PtI(3, 0)),
      LinearSegment(PtI(3, 0), PtI(3, 3)) }

Contours == UNION {[1..k -> ContourSegments] : k \in 0..MaxContour}

\* Width (as a float32), Cap and Join.
Options ==
    { [Width |-> F(10, 0), Cap |-> "RoundCap", Join |-> "RoundJoin"],
      [Width |-> F(2, 0), Cap |-> "FlatCap", Join |-> "MiterJoin"],
      [Width |-> F(1, -1), Cap |-> "SquareCap", Join |-> "BevelJoin"] }

\* Sweep angles: 0, 1/2, -1/2, 1, -1, 2.75, -3.25, 6.5, float32(2 pi / 16), the
\* float32 values 3.534292 and 7.068584 next to 9 and 18 times 2 pi / 16, and
\* 2^24.
Angles ==
    { Zero, <<1, -1>>, <<-1, -1>>, One, <<-1, 0>>, <<11, -2>>, <<-13, -2>>,
      <<13, -1>>, <<13176795, -25>>, <<14823895, -22>>, <<-14823895, -22>>,
      <<14823895, -21>>, <<1, 24>>, <<-1, 24>> }

NoSegment == Segment(PtI(0, 0), PtI(0, 0), PtI(0, 0), PtI(0, 0))

NoArc == [start |-> PtI(0, 0), center |-> PtI(0, 0), f2 |-> PtI(0, 0), angle |-> Zero]

----------------------------------------------------------------------------
(* The state: one call of the package at a time. *)

VARIABLES
    pc,            \* "segment", "path", "arc": the input is chosen; "loop": in
                   \* AppendArc's loop; "done": the call has returned
    s,             \* the Segment the call is made on
    path,          \* the [][]Segment (Stroke), whose first contour reversePath gets
    arc,           \* the arguments of AppendArc and arcTransform
    call,          \* the call made: its name and parameters
    ret,           \* what it returned, under its name
    dst, pos, i, n, segmentAngle   \* AppendArc's variables

vars == <<pc, s, path, arc, call, ret, dst, pos, i, n, segmentAngle>>

NoCall == [name |-> "none"]

NoLoop ==
    /\ dst = <<>>
    /\ pos = PtI(0, 0)
    /\ i = 0
    /\ n = 0
    /\ segmentAngle = Zero

InitSegment ==
    /\ pc = "segment"
    /\ s \in Segments
    /\ path = <<>>
    /\ arc = NoArc
    /\ NoLoop

InitPath ==
    /\ pc = "path"
    /\ s = NoSegment
    /\ path \in {<<c>> : c \in Contours}
                   \cup {<<c, d>> : c \in Contours,
                                    d \in {<<>>, <<LinearSegment(PtI(0, 0), PtI(3, 0))>>}}
    /\ arc = NoArc
    /\ NoLoop

InitArc ==
    /\ pc = "arc"
    /\ s = NoSegment
    /\ path = <<>>
    /\ \E angle \in Angles, c \in {PtI(0, 0), PtI(3, 3)}, f \in {PtI(0, 0), PtI(3, 0)} :
           arc = [start |-> PtI(1, 2), center |-> c, f2 |-> f, angle |-> angle]
    /\ dst \in {<<>>, <<LinearSegment(PtI(0, 0), PtI(1, 2))>>}
    /\ pos = PtI(0, 0)
    /\ i = 0
    /\ n = 0
    /\ segmentAngle = Zero

Init ==
    /\ call = NoCall
    /\ ret = [none |-> <<>>]
    /\ (InitSegment \/ InitPath \/ InitArc)

\* Each call on the segment s, or on the path, records what it returned.
Tangents ==
    /\ pc = "segment"
    /\ pc' = "done"
    /\ call' = [name |-> "tangents", params |-> <<>>]
    /\ ret' = [tangents |-> tangents(s)]
    /\ UNCHANGED <<s, path, arc, dst, pos, i, n, segmentAngle>>

Extrema ==
    /\ pc = "segment"
    /\ pc' = "done"
    /\ call' = [name |-> "extrema", params |-> <<>>]
    /\ ret' = [extrema |-> extrema(s)]
    /\ UNCHANGED <<s, path, arc, dst, pos, i, n, segmentAngle>>

DoSplit ==
    \E t \in Params :
        /\ pc = "segment"
        /\ pc' = "done"
        /\ call' = [name |-> "Split", params |-> <<t>>]
        /\ ret' = [Split |-> Split(s, t)]
        /\ UNCHANGED <<s, path, arc, dst, pos, i, n, segmentAngle>>

\* Split2 returns its section along with the arguments of its calls of Split.
DoSplit2 ==
    \E t1 \in Params, t2 \in Params :
        /\ pc = "segment"
        /\ pc' = "done"
        /\ call' = [name |-> "Split2", params |-> <<t1, t2>>]
        /\ ret' = [Split2 |-> Split2Calls(s, t1, t2)]
        /\ UNCHANGED <<s, path, arc, dst, pos, i, n, segmentAngle>>

SplitAtExtrema ==
    /\ pc = "segment"
    /\ pc' = "done"
    /\ call' = [name |-> "splitAtExtrema", params |-> <<>>]
    /\ ret' = [splitAtExtrema |-> splitAtExtrema(s)]
    /\ UNCHANGED <<s, path, arc, dst, pos, i, n, segmentAngle>>

Reverse ==
    /\ pc = "segment"
    /\ pc' = "done"
    /\ call' = [name |-> "reverse", params |-> <<>>]
    /\ ret' = [reverse |-> reverse(s)]
    /\ UNCHANGED <<s, path, arc, dst, pos, i, n, segmentAngle>>

\* reversePath is given the first contour of the path.
ReversePath ==
    /\ pc = "path"
    /\ pc' = "done"
    /\ call' = [name |-> "reversePath", params |-> <<>>]
    /\ ret' = [reversePath |-> reversePath(path[1])]
    /\ UNCHANGED <<s, path, arc, dst, pos, i, n, segmentAngle>>

DoStroke ==
    \E opt \in Options :
        /\ pc = "path"
        /\ pc' = "done"
        /\ call' = [name |-> "Stroke", params |-> <<opt>>]
        /\ ret' = [Stroke |-> Stroke(path, opt)]
        /\ UNCHANGED <<s, path, arc, dst, pos, i, n, segmentAngle>>

\* AppendArc up to its loop.
AppendArcBegin ==
    /\ pc = "arc"
    /\ pc' = "loop"
    /\ call' = [name |-> "AppendArc", params |-> <<dst>>]
    /\ n' = arcCount(arc.angle)
    /\ segmentAngle' = arcSegmentAngle(arc.angle)
    /\ pos' = arc.start
    /\ i' = 0
    /\ UNCHANGED <<s, path, arc, ret, dst>>

\* One pass of the loop.
AppendArcLoop ==
    /\ pc = "loop"
    /\ i < n
    /\ i < MaxAppend
    /\ dst' = Append(dst, ArcSegment(pos, arc.center, segmentAngle))
    /\ pos' = ArcSegment(pos, arc.center, segmentAngle).End
    /\ i' = i + 1
    /\ UNCHANGED <<pc, s, path, arc, call, ret, n, segmentAngle>>

AppendArcReturn ==
    /\ pc = "loop"
    /\ ~(i < n)
    /\ pc' = "done"
    /\ ret' = [AppendArc |-> dst]
    /\ UNCHANGED <<s, path, arc, call, dst, pos, i, n, segmentAngle>>

ArcTransform ==
    /\ pc = "arc"
    /\ dst = <<>>
    /\ pc' = "done"
    /\ call' = [name |-> "arcTransform", params |-> <<>>]
    /\ ret' = [arcTransform |-> arcTransform(arc.start, arc.center, arc.f2, arc.angle)]
    /\ UNCHANGED <<s, path, arc, dst, pos, i, n, segmentAngle>>

Next ==
    \/ Tangents
    \/ Extrema
    \/ DoSplit
    \/ DoSplit2
    \/ SplitAtExtrema
    \/ Reverse
    \/ ReversePath
    \/ DoStroke
    \/ AppendArcBegin
    \/ AppendArcLoop
    \/ AppendArcReturn
    \/ ArcTransform

Spec == Init /\ [][Next]_vars

----------------------------------------------------------------------------
(* Properties. *)

\* The call name has returned.
Done(name) == pc = "done" /\ call.name = name

\* What the call returned.
Result == ret[call.name]

\* The contour has a segment and every segment of it has Start == End.
ZeroLength(contour) ==
    /\ Len(contour) > 0
    /\ \A k \in 1..Len(contour) : PtEq(contour[k].Start, contour[k].End)

\* C1: Stroke of a path whose only contour consists of zero-length segments
\* (Start == End for every segment) returns the empty path, whatever the Options.
C1_ZeroLengthStroke ==
    Done("Stroke") /\ Len(path) = 1 /\ ZeroLength(path[1]) => Result = <<>>

\* Stroke has returned on a single contour of two zero-length segments, one of
\* them a closed loop, with Width 10, RoundCap and RoundJoin.
C1_Witness ==
    /\ Done("Stroke")
    /\ Len(path) = 1
    /\ ZeroLength(path[1])
    /\ Len(path[1]) = 2
    /\ \E k \in 1..2 : ~PtEq(path[1][k].CP1, path[1][k].Start)
    /\ call.params[1] = [Width |-> F(10, 0), Cap |-> "RoundCap", Join |-> "RoundJoin"]
    /\ Result = <<>>

\* C2: the sequence extrema returns contains 0 and 1, is strictly ascending,
\* and every element of it lies in [0, 1] and is not NaN.
C2_ExtremaSorted ==
    Done("extrema") =>
        /\ \E k \in 1..Len(Result) : Result[k] = Zero
        /\ \E k \in 1..Len(Result) : Result[k] = One
        /\ \A k \in 1..(Len(Result) - 1) : FLt(Result[k], Result[k + 1])
        /\ \A k \in 1..Len(Result) :
               ~IsNaN(Result[k]) /\ FLe(Zero, Result[k]) /\ FLe(Result[k], One)

\* extrema has returned interior values for a segment whose roots, before the
\* filter, held a NaN and a value above 1.
C2_Witness ==
    /\ Done("extrema")
    /\ Len(Result) >= 3
    /\ \E k \in 1..Len(roots(s)) : IsNaN(roots(s)[k])
    /\ \E k \in 1..Len(roots(s)) : FGt(roots(s)[k], One)

\* The fields of seg swapped: Start with End and CP1 with CP2.
Swapped(seg, r) ==
    /\ PtEq(r.Start, seg.End)
    /\ PtEq(r.CP1, seg.CP2)
    /\ PtEq(r.CP2, seg.CP1)
    /\ PtEq(r.End, seg.Start)

C5_Returned ==
    /\ Done("reverse") => Swapped(s, Result) /\ SegEq(reverse(Result), s)
    /\ Done("reversePath") =>
           /\ Len(Result) = Len(path[1])
           /\ \A k \in 1..Len(path[1]) :
                  Swapped(path[1][Len(path[1]) - k + 1], Result[k])

\* C5: reverse swaps Start with End and CP1 with CP2 and is its own inverse;
\* reversePath returns as many segments as its input has, element k being the
\* reverse of the element k places from the end, and leaves its input as it was.
C5_Reverse ==
    /\ []C5_Returned
    /\ [][call'.name = "reversePath" => path' = path]_vars

\* reversePath has returned on a contour of two different segments, and
\* reverse on a segment whose four points differ.
C5_Witness ==
    \/ /\ Done("reversePath")
       /\ Len(path[1]) = 2
       /\ path[1][1] # path[1][2]
       /\ Result # path[1]
    \/ /\ Done("reverse")
       /\ Cardinality({s.Start, s.CP1, s.CP2, s.End}) = 4

\* The halves l and r of s meet and keep the ends of s.
SplitEnds(l, r) ==
    /\ PtEq(l.Start, s.Start)
    /\ PtEq(r.End, s.End)
    /\ PtEq(l.End, r.Start)

\* The segment all of whose points are p.
PointSegment(p) == Segment(p, p, p, p)

\* The four points of seg differ from one another.
Distinct(seg) == Cardinality({seg.Start, seg.CP1, seg.CP2, seg.End}) = 4

C4_Split2Boundary ==
    Done("Split2") =>
        /\ call.params = <<Zero, One>> => SegEq(Result.r, s)
        /\ call.params[1] = Zero =>
               /\ Result.r = Split(s, call.params[2])[1]
               /\ Result.calls = <<call.params[2]>>
        /\ call.params[2] = One =>
               /\ Result.r = Split(s, call.params[1])[2]
               /\ Len(Result.calls) = 1
               /\ Result.calls[1] \in {call.params[1], One}

\* Split2(0, 1) has returned s, a segment of four different points, after one
\* call Split(1).
C4_Witness ==
    /\ Done("Split2")
    /\ Distinct(s)
    /\ call.params = <<Zero, One>>
    /\ Result = [r |-> s, calls |-> <<One>>]

\* The first of a, b and c that differs from p (c if none does).
FirstFrom(p, a, b, c) ==
    IF ~PtEq(a, p) THEN a ELSE IF ~PtEq(b, p) THEN b ELSE c

\* The length of v is 1 to within two units in the last place.
IsUnit(v) == FLe(FAbs(FSub(Hypot(v.X, v.Y), One)), <<1, -22>>)

AllCoincide(seg) ==
    PtEq(seg.CP1, seg.Start) /\ PtEq(seg.CP2, seg.Start) /\ PtEq(seg.End, seg.Start)

\* C6: the start tangent is the direction from Start to the first of CP1, CP2,
\* End that differs from Start, the end tangent the direction to End from the
\* first of CP2, CP1, Start that differs from End; a tangent is the zero vector
\* if and only if the four points coincide, and is a unit vector otherwise.
C6_Tangents ==
    Done("tangents") =>
        /\ Result[1] = unitVector(PtSub(FirstFrom(s.Start, s.CP1, s.CP2, s.End), s.Start))
        /\ Result[2] = unitVector(PtSub(s.End, FirstFrom(s.End, s.CP2, s.CP1, s.Start)))
        /\ \A k \in 1..2 :
               /\ Result[k] = Pt(Zero, Zero) <=> AllCoincide(s)
               /\ ~AllCoincide(s) => IsUnit(Result[k])

\* tangents has returned on a segment whose CP1 is Start and whose CP2 is End,
\* Start and End apart: both tangents come from the next point in line.
C6_Witness ==
    /\ Done("tangents")
    /\ PtEq(s.CP1, s.Start)
    /\ PtEq(s.CP2, s.End)
    /\ ~PtEq(s.Start, s.End)
    /\ IsUnit(Result[1])
    /\ Result[2] = Result[1]

\* The derivative of one coordinate of seg, as the points a, b, c of the
\* quadratic a (1 - t)^2 + 2 b (1 - t) t + c t^2.
DerivX(seg) ==
    <<FSub(seg.CP1.X, seg.Start.X), FSub(seg.CP2.X, seg.CP1.X), FSub(seg.End.X, seg.CP2.X)>>

DerivY(seg) ==
    <<FSub(seg.CP1.Y, seg.Start.Y), FSub(seg.CP2.Y, seg.CP1.Y), FSub(seg.End.Y, seg.CP2.Y)>>

\* The derivative d at v, and the derivative of the derivative (halved).
Deriv1(d, v) ==
    FAdd(FAdd(FMul(d[1], FMul(FSub(One, v), FSub(One, v))),
              FMul(FMul(Two, d[2]), FMul(FSub(One, v), v))),
         FMul(d[3], FMul(v, v)))

Deriv2(d, v) == FAdd(FMul(FSub(d[2], d[1]), FSub(One, v)), FMul(FSub(d[3], d[2]), v))

\* x is zero to within rounding: below 2^-16 of the size of the coefficients.
Vanishes(x, d) ==
    FLe(FAbs(x), FMul(<<1, -16>>, FAdd(FAdd(FAbs(d[1]), FAbs(d[2])), FAbs(d[3]))))

\* v is a zero of the derivative of the x or of the y coordinate of s.
CoordinateExtreme(v) ==
    Vanishes(Deriv1(DerivX(s), v), DerivX(s)) \/ Vanishes(Deriv1(DerivY(s), v), DerivY(s))

\* The derivative d is a true quadratic: a - 2b + c is not 0.
Quadratic(d) == FNe(FAdd(FSub(d[1], FMul(Two, d[2])), d[3]), Zero)

\* v is a zero of the second derivative of a coordinate whose derivative is a
\* true quadratic.
SlopeExtreme(v) ==
    \E d \in {DerivX(s), DerivY(s)} : Quadratic(d) /\ Vanishes(Deriv2(d, v), d)

\* What linearRoot returns for the derivative d in extrema.
LinearOf(d) == linearRoot(FSub(d[2], d[1]), FSub(d[3], d[2]))

InUnit(v) == FLe(Zero, v) /\ FLe(v, One)

\* C7 as stated: every value of extrema other than 0 and 1 is a zero of the
\* derivative of x or of y, and linearRoot contributes only where the
\* derivative is linear in t.
C7_ExtremaAreCritical ==
    Done("extrema") =>
        /\ \A k \in 1..Len(Result) : Result[k] \in {Zero, One} \/ CoordinateExtreme(Result[k])
        /\ \A d \in {DerivX(s), DerivY(s)} :
               LinearOf(d).ok /\ InUnit(LinearOf(d).root) /\ LinearOf(d).root \notin {Zero, One}
                   => ~Quadratic(d)

\* C7 as amended: every value of extrema other than 0 and 1 is a zero of the
\* derivative of x or of y, or a zero of the second derivative of one of them;
\* linearRoot contributes exactly where the derivative is a true quadratic, and
\* its root, when in [0, 1], is among the values.
C7_ExtremaAndInflections ==
    Done("extrema") =>
        /\ \A k \in 1..Len(Result) :
               Result[k] \in {Zero, One} \/ CoordinateExtreme(Result[k]) \/ SlopeExtreme(Result[k])
        /\ \A d \in {DerivX(s), DerivY(s)} :
               /\ LinearOf(d).ok <=> Quadratic(d)
               /\ LinearOf(d).ok /\ InUnit(LinearOf(d).root) =>
                      \E k \in 1..Len(Result) : Result[k] = LinearOf(d).root

\* extrema has returned a value that is a zero of a second derivative and of
\* neither derivative.
C7_Witness ==
    /\ Done("extrema")
    /\ \E k \in 1..Len(Result) :
           /\ Result[k] \notin {Zero, One}
           /\ SlopeExtreme(Result[k])
           /\ ~CoordinateExtreme(Result[k])

\* AppendArc is in its loop or has returned.
InAppendArc == pc \in {"loop", "done"} /\ call.name = "AppendArc"

\* The segments appended so far follow dst as it was given, the first from
\* start and each later one from the End of the one before it, all of the
\* same sweep.
Chain(given) ==
    /\ Len(dst) = Len(given) + i
    /\ SubSeq(dst, 1, Len(given)) = given
    /\ \A k \in 1..i :
           dst[Len(given) + k] =
               ArcSegment(IF k = 1 THEN arc.start ELSE dst[Len(given) + k - 1].End,
                          arc.center, segmentAngle)

\* C8: AppendArc appends n = floor(|angle|) + 1 >= 1 segments after those of
\* dst, which it leaves as they were; each has the sweep angle / n, of magnitude
\* less than one radian; the first starts at start and each later one at the
\* End of the one before it.
C8_AppendArc ==
    /\ InAppendArc =>
           /\ n = TruncInt(FAbs(arc.angle)) + 1
           /\ n >= 1
           /\ FLt(FAbs(segmentAngle), One)
           /\ Chain(call.params[1])
    /\ Done("AppendArc") => Result = dst /\ Len(dst) = Len(call.params[1]) + n

\* |x| * 2^25 as <<H, L>>, standing for H * 2^24 + L, for a finite x of
\* magnitude 2^-25 to 2^29 (<<0, 0>> below that).
Scaled(x) ==
    IF x[2] + 25 < 0 THEN <<0, 0>>
    ELSE IF x[2] + 1 >= 0 THEN <<Abs(x[1]) * Pow2(x[2] + 1), 0>>
    ELSE <<Abs(x[1]) \div Pow2(-(x[2] + 1)),
           (Abs(x[1]) % Pow2(-(x[2] + 1))) * Pow2(x[2] + 25)>>

PairLe(a, b) == a[1] < b[1] \/ (a[1] = b[1] /\ a[2] <= b[2])

\* Bounds of 2 pi / 16, which lies between 13176794 and 13176795 times 2^-25:
\* |angle| <= k * 2 pi / 16 only if |angle| * 2^25 <= k * 13176795, and
\* k * 2 pi / 16 < |angle| only if k * 13176794 < |angle| * 2^25.
AtMostSweeps(angle, k) == PairLe(Scaled(angle), WideMul(k, anglePerSegment[1]))

MoreThanSweeps(angle, k) == ~PairLe(Scaled(angle), WideMul(k, anglePerSegment[1] - 1))

\* The largest float32 that is not above 2 pi / 16.
BelowSweep == <<6588397, -24>>

\* The float32 next above float32(2 pi / 16).
AboveSweep == <<3294199, -23>>

\* The count does not depend on the sign of the angle or on the points.
SameCount ==
    \A a \in {arc.angle, FNeg(arc.angle)}, p \in Pts, f1 \in Pts, f2 \in Pts :
        arcTransform(p, f1, f2, a).segments = Result.segments

\* C9 as stated: the count of arcTransform is ceil(|angle| / (2 pi / 16)), at
\* least 1, whatever the sign of the angle and the points, and the sweep
\* angle / segments of a segment is never above 2 pi / 16.
C9_ArcCount ==
    Done("arcTransform") =>
        /\ Result.segments >= 1
        /\ AtMostSweeps(arc.angle, Result.segments)
        /\ Result.segments > 1 => MoreThanSweeps(arc.angle, Result.segments - 1)
        /\ SameCount
        /\ FLe(FAbs(Result.theta), BelowSweep)

\* k is the least integer that is not below the float32 q >= 0.
IsCeil(q, k) ==
    IF q[2] >= 0 THEN k = q[1] * Pow2(q[2])
    ELSE (k - 1) * Pow2(-q[2]) < q[1] /\ q[1] <= k * Pow2(-q[2])

\* C9 as amended: the count is the ceiling of the float32 quotient
\* |angle / float32(2 pi / 16)|, or 1 for a zero sweep, whatever the sign of the
\* angle and the points, and the sweep of a segment is never above the float32
\* next after float32(2 pi / 16).
C9_ArcCountRounded ==
    Done("arcTransform") =>
        /\ Result.segments >= 1
        /\ IF arc.angle = Zero THEN Result.segments = 1
           ELSE IsCeil(FAbs(FDiv(arc.angle, anglePerSegment)), Result.segments)
        /\ SameCount
        /\ FLe(FAbs(Result.theta), AboveSweep)

\* arcTransform has returned 9 segments for 3.534292, each above 2 pi / 16.
C9_Witness ==
    /\ Done("arcTransform")
    /\ arc.angle = <<14823895, -22>>
    /\ Result.segments = 9
    /\ FGt(Result.theta, anglePerSegment)

\* C10: extrema yields 2 to 8 values, and splitAtExtrema one piece for each
\* two values that follow one another, the first below the second: the
\* section of s between them; the first piece starts at s.Start, the last
\* ends at s.End, and with no value between 0 and 1 the one piece is s.
C10_SplitAtExtrema ==
    Done("splitAtExtrema") =>
        /\ Len(extrema(s)) \in 2..8
        /\ Len(Result) = Len(extrema(s)) - 1
        /\ \A k \in 1..Len(Result) :
               /\ FLt(extrema(s)[k], extrema(s)[k + 1])
               /\ SegEq(Result[k], Split2(s, extrema(s)[k], extrema(s)[k + 1]))
        /\ PtEq(Result[1].Start, s.Start)
        /\ PtEq(Result[Len(Result)].End, s.End)
        /\ Len(extrema(s)) = 2 => Result = <<s>>

\* splitAtExtrema has returned seven pieces.
C10_Witness ==
    /\ Done("splitAtExtrema")
    /\ Len(extrema(s)) = 8
    /\ Len(Result) = 7

====
